---- MODULE Spec2Model ----
(***************************************************************************)
(* Model of the instruction decoder of the oni Game Boy emulator,          *)
(* src/cpu/instruction.rs: Instruction::decode over a Cursor<Vec<u8>>.     *)
(*                                                                         *)
(* The state is the cursor (its buffer and its read position) and the log  *)
(* of the decode calls made on it so far, each with the position it        *)
(* started from, the position it left and what it returned.  One action,   *)
(* Decode, is one call of Instruction::decode.                             *)
(***************************************************************************)
EXTENDS Integers, Sequences, FiniteSets, TLC

VARIABLES memory, calls

vars == <<memory, calls>>

(***************************************************************************)
(* Bounds of the model.                                                    *)
(***************************************************************************)
\* Longest byte stream handed to the cursor.
MaxLen == 3
\* Most decode calls made on one cursor.
MaxCalls == 3

Byte == 0..255

\* The first byte of a stream ranges over all 256 values; the bytes after it
\* are drawn from these: zero, an asymmetric pair (0x12, 0x34), a byte with
\* the top bit set, an opcode no rule matches and the largest byte.
TrailingBytes == {\h00, \h12, \h34, \h80, \hD3, \hFF}

Tails == UNION {[1..n -> TrailingBytes] : n \in 0..(MaxLen - 1)}

Streams == {<<>>} \cup {<<o>> \o t : o \in Byte, t \in Tails}

(***************************************************************************)
(* u8 bit operations, computed bit by bit.                                 *)
(***************************************************************************)
RECURSIVE BitAnd(_, _)
BitAnd(a, b) ==
    IF a = 0 \/ b = 0 THEN 0
    ELSE (a % 2) * (b % 2) + 2 * BitAnd(a \div 2, b \div 2)

RECURSIVE BitOr(_, _)
BitOr(a, b) ==
    IF a = 0 THEN b
    ELSE IF b = 0 THEN a
    ELSE (IF a % 2 = 1 \/ b % 2 = 1 THEN 1 ELSE 0) + 2 * BitOr(a \div 2, b \div 2)

\* opcode >> 4
Shr4(opcode) == opcode \div 16

\* opcode & 0b00001111
LowNibble(opcode) == BitAnd(opcode, \h0F)

\* opcode & 0b11110000
HighNibbleMask(opcode) == BitAnd(opcode, \hF0)

(***************************************************************************)
(* The cursor.  read_exact either delivers n bytes and advances by n, or   *)
(* fails with UnexpectedEof.  Where a failed read leaves the position is   *)
(* decided by the standard library the crate is built with: it stays where *)
(* it was, or it moves to the end of the buffer.  eofSeeks chooses.        *)
(***************************************************************************)
UnexpectedEof == "UnexpectedEof"

read_exact(mem, n, eofSeeks) ==
    IF mem.pos + n <= Len(mem.inner)
    THEN [ok |-> TRUE,
          bytes |-> SubSeq(mem.inner, mem.pos + 1, mem.pos + n),
          memory |-> [mem EXCEPT !.pos = @ + n]]
    ELSE [ok |-> FALSE,
          bytes |-> <<>>,
          memory |-> [mem EXCEPT !.pos = IF eofSeeks THEN Len(mem.inner) ELSE @]]

read_u8(mem, eofSeeks) ==
    LET r == read_exact(mem, 1, eofSeeks)
    IN  [ok |-> r.ok,
         value |-> IF r.ok THEN r.bytes[1] ELSE 0,
         memory |-> r.memory]

\* read_u16::<LittleEndian>: the first byte read is the low byte.
read_u16_LittleEndian(mem, eofSeeks) ==
    LET r == read_exact(mem, 2, eofSeeks)
    IN  [ok |-> r.ok,
         value |-> IF r.ok THEN BitOr(r.bytes[2] * 256, r.bytes[1]) ELSE 0,
         memory |-> r.memory]

\* read_u16::<BigEndian>: the first byte read is the high byte.
read_u16(mem, eofSeeks) ==
    LET r == read_exact(mem, 2, eofSeeks)
    IN  [ok |-> r.ok,
         value |-> IF r.ok THEN BitOr(r.bytes[1] * 256, r.bytes[2]) ELSE 0,
         memory |-> r.memory]

(***************************************************************************)
(* What decode returns, paired with the cursor it leaves.                  *)
(***************************************************************************)
Ok(instruction, mem) ==
    [result |-> [kind |-> "Ok", instruction |-> instruction], memory |-> mem]

Err(error, mem) ==
    [result |-> [kind |-> "Err", error |-> error], memory |-> mem]

\* unreachable!() was evaluated: the call panics instead of returning.
Panic(mem) ==
    [result |-> [kind |-> "Panic"], memory |-> mem]

\* The value of an inner match whose wildcard arm, unreachable!(), was taken.
Unreachable == "unreachable!()"

\* match key { k => table[k], ..., _ => unreachable!() }
Select(key, table) ==
    IF key \in DOMAIN table THEN table[key] ELSE Unreachable

\* Ok(instruction), unless building it evaluated unreachable!() for operand.
Build(operand, instruction, mem) ==
    IF operand = Unreachable THEN Panic(mem) ELSE Ok(instruction, mem)

\* Ok(Variant { field: memory.read_u8()? , ...rest })
WithU8(mem, eofSeeks, field, rest) ==
    LET r == read_u8(mem, eofSeeks)
    IN  IF r.ok THEN Ok((field :> r.value) @@ rest, r.memory)
        ELSE Err(UnexpectedEof, r.memory)

\* Ok(Variant { field: memory.read_u16::<BigEndian>()? , ...rest })
WithU16(mem, eofSeeks, field, rest) ==
    LET r == read_u16(mem, eofSeeks)
    IN  IF r.ok THEN Ok((field :> r.value) @@ rest, r.memory)
        ELSE Err(UnexpectedEof, r.memory)

(***************************************************************************)
(* Register lookup tables of the inner matches, keyed as the source keys   *)
(* them.                                                                   *)
(***************************************************************************)
\* 0x0 => BC, 0x1 => DE, 0x2 => HL, 0x3 => SP
PairBySP == (0 :> "BC") @@ (1 :> "DE") @@ (2 :> "HL") @@ (3 :> "SP")

\* 0x0 => B, 0x1 => D, 0x2 => H, 0x3 => HL
HighHalfLeft == (0 :> "B") @@ (1 :> "D") @@ (2 :> "H") @@ (3 :> "HL")

\* 0x0 => C, 0x1 => E, 0x2 => L, 0x3 => A
HighHalfRight == (0 :> "C") @@ (1 :> "E") @@ (2 :> "L") @@ (3 :> "A")

\* 0xC => BC, 0xD => DE, 0xE => HL, 0xF => AF
PairByAF == (\hC :> "BC") @@ (\hD :> "DE") @@ (\hE :> "HL") @@ (\hF :> "AF")

\* 0x0 => B, 0x1 => C, ..., 0x6 => HL, 0x7 => A
ColumnLow ==
    (0 :> "B") @@ (1 :> "C") @@ (2 :> "D") @@ (3 :> "E") @@
    (4 :> "H") @@ (5 :> "L") @@ (6 :> "HL") @@ (7 :> "A")

\* 0x8 => B, 0x9 => C, ..., 0xE => HL, 0xF => A
ColumnHigh ==
    (8 :> "B") @@ (9 :> "C") @@ (10 :> "D") @@ (11 :> "E") @@
    (12 :> "H") @@ (13 :> "L") @@ (14 :> "HL") @@ (15 :> "A")

\* 0x0 | 0x8 => B, 0x1 | 0x9 => C, ..., 0x6 | 0xE => HL, 0x7 | 0xF => A
ColumnBoth == ColumnLow @@ ColumnHigh

(***************************************************************************)
(* The arms of the match over the opcode, in the order of the source.      *)
(***************************************************************************)
\* 0x10: one byte is read and dropped.
StopArm_NoRead(mem, eofSeeks) ==
    Ok([variant |-> "Stop"], mem)

StopArm(mem, eofSeeks) ==
    LET r == read_u8(mem, eofSeeks)
    IN  IF r.ok THEN Ok([variant |-> "Stop"], r.memory)
        ELSE Err(UnexpectedEof, r.memory)

\* 0xC7 | 0xD7 | 0xE7 | 0xF7
ResetEvenArm(opcode, mem) ==
    Ok([variant |-> "Reset", location |-> ((Shr4(opcode) - \hC) * 2) % 256], mem)

\* 0xCF | 0xDF | 0xEF | 0xFF
ResetOddArm(opcode, mem) ==
    Ok([variant |-> "Reset",
        location |-> ((((Shr4(opcode) - \hC) * 2) % 256) + 1) % 256], mem)

\* 0x07, 0x17, 0x0F, 0x1F, 0x2F: an instruction whose one operand is A.
OnAccumulator(variant, mem) ==
    Ok([variant |-> variant, register |-> "A"], mem)

\* 0x02 | 0x12: the key of the inner match is opcode & 0b11110000.
StoreThroughPairArm(opcode, mem) ==
    LET register2 == Select(HighNibbleMask(opcode), (0 :> "BC") @@ (1 :> "DE"))
    IN  Build(register2,
              [variant |-> "LoadValueOfFirstRegisterIntoSecondRegister",
               register1 |-> "A",
               register2 |-> register2,
               treat_value_in_first_register_as_memory_address |-> FALSE,
               treat_value_in_second_register_as_memory_address |-> TRUE,
               operation_on_first_register |-> "None",
               operation_on_second_register |-> "None"],
              mem)

\* 0x22 | 0x32: the key of the inner match is opcode & 0b11110000.
StoreThroughHLArm(opcode, mem) ==
    LET operation == Select(HighNibbleMask(opcode),
                            (2 :> "Some(Increment)") @@ (3 :> "Some(Decrement)"))
    IN  Build(operation,
              [variant |-> "LoadValueOfFirstRegisterIntoSecondRegister",
               register1 |-> "A",
               register2 |-> "HL",
               treat_value_in_first_register_as_memory_address |-> FALSE,
               treat_value_in_second_register_as_memory_address |-> TRUE,
               operation_on_first_register |-> "None",
               operation_on_second_register |-> operation],
              mem)

\* The address read with read_u8 in place of read_u16.
AddressArm_OneByte(variant, mem, eofSeeks) ==
    WithU8(mem, eofSeeks, "address", [variant |-> variant])

\* 0xC3, 0xCD, 0xEA, 0xFA, 0x08: a variant whose only field is a u16 address.
AddressArm(variant, mem, eofSeeks) ==
    WithU16(mem, eofSeeks, "address", [variant |-> variant])

\* 0xC2, 0xD2, 0xCA, 0xDA, 0xC4, 0xD4, 0xCC, 0xDC: flag, then a u16 address.
FlagAddressArm(variant, flag, mem, eofSeeks) ==
    WithU16(mem, eofSeeks, "address", [variant |-> variant, flag |-> flag])

\* 0x18
RelativeJumpArm(mem, eofSeeks) ==
    WithU8(mem, eofSeeks, "steps", [variant |-> "RelativeJump"])

\* 0x20, 0x30, 0x28, 0x38: flag, then a u8 of steps.
FlagStepsArm(variant, flag, mem, eofSeeks) ==
    WithU8(mem, eofSeeks, "steps", [variant |-> variant, flag |-> flag])

\* 0xC0, 0xD0, 0xC8, 0xD8
FlagArm(variant, flag, mem) ==
    Ok([variant |-> variant, flag |-> flag], mem)

\* 0x03.., 0x04.., 0x0C.., 0x05.., 0x0B.., 0x0D..: increment or decrement of
\* the register the high nibble selects from table.
StepRegisterArm(variant, opcode, table, flagged, mem) ==
    LET register == Select(Shr4(opcode), table)
    IN  Build(register,
              [variant |-> variant,
               register |-> register,
               treat_value_in_register_as_memory_address |-> flagged],
              mem)

\* 0x06 | 0x16 | 0x26 | 0x36 and 0x0E | 0x1E | 0x2E | 0x3E: data is read
\* before the register is selected.
LoadOneByteArm(opcode, table, flagged, mem, eofSeeks) ==
    LET register == Select(Shr4(opcode), table)
        read == WithU8(mem, eofSeeks, "data",
                       [variant |-> "LoadOneByteOfDataIntoRegister",
                        register |-> register,
                        treat_value_in_register_as_memory_address |-> flagged])
    IN  IF read.result.kind = "Ok" /\ register = Unreachable
        THEN Panic(read.memory)
        ELSE read

\* 0x01 | 0x11 | 0x21 | 0x31
LoadTwoBytesArm(opcode, mem, eofSeeks) ==
    LET register == Select(Shr4(opcode), PairBySP)
        read == WithU16(mem, eofSeeks, "data",
                        [variant |-> "LoadTwoBytesOfDataIntoRegister",
                         register |-> register])
    IN  IF read.result.kind = "Ok" /\ register = Unreachable
        THEN Panic(read.memory)
        ELSE read

\* 0x40..=0x4F | 0x50..=0x5F | 0x60..=0x6F | 0x70..=0x75 | 0x77..=0x7F
LoadBlockArm(opcode, mem) ==
    LET register1 == Select(LowNibble(opcode), ColumnBoth)
        register2 ==
            IF LowNibble(opcode) \in 0..7
            THEN Select(Shr4(opcode),
                        (4 :> "B") @@ (5 :> "D") @@ (6 :> "H") @@ (7 :> "HL"))
            ELSE IF LowNibble(opcode) \in 8..15
            THEN Select(Shr4(opcode),
                        (4 :> "C") @@ (5 :> "E") @@ (6 :> "L") @@ (7 :> "A"))
            ELSE Unreachable
    IN  IF register1 = Unreachable \/ register2 = Unreachable
        THEN Panic(mem)
        ELSE Ok([variant |-> "LoadValueOfFirstRegisterIntoSecondRegister",
                 register1 |-> register1,
                 register2 |-> register2,
                 treat_value_in_first_register_as_memory_address |->
                     LowNibble(opcode) = \h6 \/ LowNibble(opcode) = \hE,
                 treat_value_in_second_register_as_memory_address |->
                     Shr4(opcode) = \h7 /\ LowNibble(opcode) < \hE,
                 operation_on_first_register |-> "None",
                 operation_on_second_register |-> "None"],
                mem)

\* 0x76, were it not special-cased: the load its bit pattern implies.
HaltArm_AsLoad(opcode, mem) ==
    LoadBlockArm(opcode, mem)

\* 0x76
HaltArm(opcode, mem) ==
    Ok([variant |-> "Halt"], mem)

\* 0x0A | 0x1A | 0x2A | 0x3A
LoadThroughPairArm(opcode, mem) ==
    LET register1 == Select(Shr4(opcode),
                            (0 :> "BC") @@ (1 :> "DE") @@ (2 :> "HL") @@ (3 :> "HL"))
        operation == Select(Shr4(opcode),
                            (0 :> "None") @@ (1 :> "None") @@
                            (2 :> "Some(Increment)") @@ (3 :> "Some(Decrement)"))
    IN  IF register1 = Unreachable \/ operation = Unreachable
        THEN Panic(mem)
        ELSE Ok([variant |-> "LoadValueOfFirstRegisterIntoSecondRegister",
                 register1 |-> register1,
                 register2 |-> "A",
                 treat_value_in_first_register_as_memory_address |-> TRUE,
                 treat_value_in_second_register_as_memory_address |-> FALSE,
                 operation_on_first_register |-> operation,
                 operation_on_second_register |-> "None"],
                mem)

\* 0x09 | 0x19 | 0x29 | 0x39
AddPairToHLArm(opcode, mem) ==
    LET register2 == Select(Shr4(opcode), PairBySP)
    IN  Build(register2,
              [variant |-> "AddValueOfSecondRegisterToFirstRegister",
               register1 |-> "HL",
               register2 |-> register2,
               treat_value_in_second_register_as_memory_address |-> FALSE],
              mem)

\* 0x80..=0x87 and 0x90..=0x97: register1 from the low nibble, register2 A.
TwoRegisterArm(variant, opcode, flagged, mem) ==
    LET register1 == Select(LowNibble(opcode), ColumnLow)
    IN  Build(register1,
              [variant |-> variant,
               register1 |-> register1,
               register2 |-> "A",
               treat_value_in_second_register_as_memory_address |-> flagged],
              mem)

\* 0xA0..=0xA7, 0xA8..=0xAF, 0xB0..=0xB7, 0xB8..=0xBF: the register the low
\* nibble selects from table.
AccumulatorAndRegisterArm(variant, opcode, table, flagged, mem) ==
    LET register == Select(LowNibble(opcode), table)
    IN  Build(register,
              [variant |-> variant,
               register |-> register,
               treat_value_in_register_as_memory_address |-> flagged],
              mem)

\* 0xC6, 0xCE, 0xD6, 0xDE, 0xE6, 0xEE, 0xF6, 0xFE: a u8 value.
OneByteArm(variant, mem, eofSeeks) ==
    WithU8(mem, eofSeeks, "value", [variant |-> variant])

\* 0xC1 | 0xD1 | 0xE1 | 0xF1 and 0xC5 | 0xD5 | 0xE5 | 0xF5
StackArm(variant, opcode, mem) ==
    LET register == Select(Shr4(opcode), PairByAF)
    IN  Build(register, [variant |-> variant, register |-> register], mem)

\* The address with the high byte dropped.
HighPageAddress_LowByteOnly(n) == n

\* (0xFF << 8) | (n as u16)
HighPageAddress(n) == BitOr((\hFF * 256) % 65536, n)

\* 0xE0 and 0xF0: one byte is read, the high byte of the address is 0xFF.
HighPageArm(variant, mem, eofSeeks) ==
    LET r == read_u8(mem, eofSeeks)
    IN  IF r.ok
        THEN Ok([variant |-> variant, address |-> HighPageAddress(r.value)], r.memory)
        ELSE Err(UnexpectedEof, r.memory)

\* 0xCB, answered as the wildcard arm answers.
ExtendedOpcodeArm_AsWildcard(mem) ==
    Err("Unknown 8 bit opcode", mem)

\* 0xCB
ExtendedOpcodeArm(mem) ==
    Err("Unknown 16 bit opcode", mem)

\* The wildcard arm, answered as the 0xCB arm answers.
WildcardArm_AsExtended(mem) ==
    Err("Unknown 16 bit opcode", mem)

\* _
WildcardArm(mem) ==
    Err("Unknown 8 bit opcode", mem)

(***************************************************************************)
(* match opcode { ... }: the patterns in the order of the source.  mem is  *)
(* the cursor after the opcode byte was read.                              *)
(***************************************************************************)
match_opcode(opcode, mem, eofSeeks) ==
    CASE opcode = \h00 -> Ok([variant |-> "NoOperation"], mem)
      [] opcode = \h10 -> StopArm(mem, eofSeeks)
      [] opcode = \h76 -> HaltArm(opcode, mem)
      [] opcode \in {\hC7, \hD7, \hE7, \hF7} -> ResetEvenArm(opcode, mem)
      [] opcode \in {\hCF, \hDF, \hEF, \hFF} -> ResetOddArm(opcode, mem)
      [] opcode = \hF3 -> Ok([variant |-> "ResetInterruptMasterEnableFlag"], mem)
      [] opcode = \hFB -> Ok([variant |-> "SetInterruptMasterEnableFlag"], mem)
      [] opcode = \h07 -> OnAccumulator("RotateContentOfRegisterToLeft", mem)
      [] opcode = \h17 ->
            OnAccumulator("RotateContentOfRegisterToLeftThroughCarryFlag", mem)
      [] opcode = \h0F -> OnAccumulator("RotateContentOfRegisterToRight", mem)
      [] opcode = \h1F ->
            OnAccumulator("RotateContentOfRegisterToRightThroughCarryFlag", mem)
      [] opcode = \h27 -> Ok([variant |-> "AdjustAccumulatorToBCDNumber"], mem)
      [] opcode \in {\h02, \h12} -> StoreThroughPairArm(opcode, mem)
      [] opcode \in {\h22, \h32} -> StoreThroughHLArm(opcode, mem)
      [] opcode = \hC3 -> AddressArm("AbsoluteJump", mem, eofSeeks)
      [] opcode = \hC2 -> FlagAddressArm("AbsoluteJumpIfFlagIsZero", "Z", mem, eofSeeks)
      [] opcode = \hD2 -> FlagAddressArm("AbsoluteJumpIfFlagIsZero", "CY", mem, eofSeeks)
      [] opcode = \hCA -> FlagAddressArm("AbsoluteJumpIfFlagIsOne", "Z", mem, eofSeeks)
      [] opcode = \hDA -> FlagAddressArm("AbsoluteJumpIfFlagIsOne", "CY", mem, eofSeeks)
      [] opcode = \hE9 ->
            Ok([variant |-> "AbsoluteJumpToAddressInRegister", register |-> "HL"], mem)
      [] opcode = \h18 -> RelativeJumpArm(mem, eofSeeks)
      [] opcode = \h20 -> FlagStepsArm("RelativeJumpIfFlagIsZero", "Z", mem, eofSeeks)
      [] opcode = \h30 -> FlagStepsArm("RelativeJumpIfFlagIsZero", "CY", mem, eofSeeks)
      [] opcode = \h28 -> FlagStepsArm("RelativeJumpIfFlagIsOne", "Z", mem, eofSeeks)
      [] opcode = \h38 -> FlagStepsArm("RelativeJumpIfFlagIsOne", "CY", mem, eofSeeks)
      [] opcode = \hC9 -> Ok([variant |-> "Return"], mem)
      [] opcode = \hC0 -> FlagArm("ReturnIfFlagIsZero", "Z", mem)
      [] opcode = \hD0 -> FlagArm("ReturnIfFlagIsZero", "CY", mem)
      [] opcode = \hD9 -> Ok([variant |-> "ReturnAfterInterrupt"], mem)
      [] opcode = \hC8 -> FlagArm("ReturnIfFlagIsOne", "Z", mem)
      [] opcode = \hD8 -> FlagArm("ReturnIfFlagIsOne", "CY", mem)
      [] opcode = \hCD -> AddressArm("Call", mem, eofSeeks)
      [] opcode = \hC4 -> FlagAddressArm("CallIfFlagIsZero", "Z", mem, eofSeeks)
      [] opcode = \hD4 -> FlagAddressArm("CallIfFlagIsZero", "CY", mem, eofSeeks)
      [] opcode = \hCC -> FlagAddressArm("CallIfFlagIsOne", "Z", mem, eofSeeks)
      [] opcode = \hDC -> FlagAddressArm("CallIfFlagIsOne", "CY", mem, eofSeeks)
      [] opcode = \h2F -> OnAccumulator("Not", mem)
      [] opcode = \h37 -> Ok([variant |-> "SetCarryFlag"], mem)
      [] opcode = \h3F -> Ok([variant |-> "NotCarryFlag"], mem)
      [] opcode \in {\h03, \h13, \h23, \h33} ->
            StepRegisterArm("IncrementValueInRegister", opcode, PairBySP, FALSE, mem)
      [] opcode \in {\h04, \h14, \h24, \h34} ->
            StepRegisterArm("IncrementValueInRegister", opcode, HighHalfLeft,
                            opcode = \h34, mem)
      [] opcode \in {\h0C, \h1C, \h2C, \h3C} ->
            StepRegisterArm("IncrementValueInRegister", opcode, HighHalfRight, FALSE, mem)
      [] opcode \in {\h05, \h15, \h25, \h35} ->
            StepRegisterArm("DecrementValueInRegister", opcode, HighHalfLeft,
                            opcode = \h35, mem)
      [] opcode \in {\h0B, \h1B, \h2B, \h3B} ->
            StepRegisterArm("DecrementValueInRegister", opcode, PairBySP, FALSE, mem)
      [] opcode \in {\h0D, \h1D, \h2D, \h3D} ->
            StepRegisterArm("DecrementValueInRegister", opcode, HighHalfRight, FALSE, mem)
      [] opcode \in {\h06, \h16, \h26, \h36} ->
            LoadOneByteArm(opcode, HighHalfLeft, opcode = \h36, mem, eofSeeks)
      [] opcode \in {\h0E, \h1E, \h2E, \h3E} ->
            LoadOneByteArm(opcode, HighHalfRight, FALSE, mem, eofSeeks)
      [] opcode \in {\h01, \h11, \h21, \h31} -> LoadTwoBytesArm(opcode, mem, eofSeeks)
      [] opcode \in (\h40..\h4F) \cup (\h50..\h5F) \cup (\h60..\h6F)
                    \cup (\h70..\h75) \cup (\h77..\h7F) -> LoadBlockArm(opcode, mem)
      [] opcode \in {\h0A, \h1A, \h2A, \h3A} -> LoadThroughPairArm(opcode, mem)
      [] opcode \in {\h09, \h19, \h29, \h39} -> AddPairToHLArm(opcode, mem)
      [] opcode \in \h80..\h87 ->
            TwoRegisterArm("AddValueOfSecondRegisterToFirstRegister", opcode,
                           opcode = \h86, mem)
      [] opcode = \hC6 -> OneByteArm("AddOneByteToAccumulator", mem, eofSeeks)
      [] opcode = \hCE -> OneByteArm("AddOneByteAndCarryFlagToAccumulator", mem, eofSeeks)
      [] opcode \in \h90..\h97 ->
            TwoRegisterArm("SubtractValueOfSecondRegisterFromFirstRegister", opcode,
                           opcode = \h96, mem)
      [] opcode = \hD6 -> OneByteArm("SubtractOneByteFromAccumulator", mem, eofSeeks)
      [] opcode = \hDE ->
            OneByteArm("SubtractOneByteAndCarryFlagFromAccumulator", mem, eofSeeks)
      [] opcode \in \hA0..\hA7 ->
            AccumulatorAndRegisterArm("LogicalAndOnAccumulatorAndRegister", opcode,
                                      ColumnLow, opcode = \hA6, mem)
      [] opcode = \hE6 -> OneByteArm("LogicalAndOnAccumulatorAndOneByte", mem, eofSeeks)
      [] opcode \in \hA8..\hAF ->
            AccumulatorAndRegisterArm("LogicalXorOnAccumulatorAndRegister", opcode,
                                      ColumnHigh, opcode = \hAE, mem)
      [] opcode = \hEE -> OneByteArm("LogicalXorOnAccumulatorAndOneByte", mem, eofSeeks)
      [] opcode \in \hB0..\hB7 ->
            AccumulatorAndRegisterArm("LogicalOrOnAccumulatorAndRegister", opcode,
                                      ColumnLow, opcode = \hB6, mem)
      [] opcode = \hF6 -> OneByteArm("LogicalOrOnAccumulatorAndOneByte", mem, eofSeeks)
      [] opcode \in \hB8..\hBF ->
            AccumulatorAndRegisterArm("CompareAccumulatorAndRegister", opcode,
                                      ColumnHigh, opcode = \hBE, mem)
      [] opcode = \hFE -> OneByteArm("CompareAccumulatorAndOneByte", mem, eofSeeks)
      [] opcode \in {\hC1, \hD1, \hE1, \hF1} ->
            StackArm("PopValueFromStackIntoRegister", opcode, mem)
      [] opcode \in {\hC5, \hD5, \hE5, \hF5} ->
            StackArm("PushValueOfRegisterOntoStack", opcode, mem)
      [] opcode = \hE0 -> HighPageArm("StoreAccumulatorInMemory", mem, eofSeeks)
      [] opcode = \hEA -> AddressArm("StoreAccumulatorInMemory", mem, eofSeeks)
      [] opcode = \hF0 -> HighPageArm("LoadAccumulatorFromMemory", mem, eofSeeks)
      [] opcode = \hFA -> AddressArm("LoadAccumulatorFromMemory", mem, eofSeeks)
      [] opcode = \hE2 ->
            Ok([variant |-> "StoreAccumulatorInMemorySpecifiedByRegisterC"], mem)
      [] opcode = \hF2 ->
            Ok([variant |-> "LoadAccumulatorFromMemorySpecifiedByRegisterC"], mem)
      [] opcode = \h08 -> AddressArm("StoreStackPointerInMemory", mem, eofSeeks)
      [] opcode = \hF9 -> Ok([variant |-> "StoreContentOfRegisterHLInStackPointer"], mem)
      [] opcode = \hE8 -> Ok([variant |-> "AddValueToStackPointer"], mem)
      [] opcode = \hF8 ->
            Ok([variant |-> "AddValueToStackPointerAndStoreResultInRegisterHL"], mem)
      [] opcode = \hCB -> ExtendedOpcodeArm(mem)
      [] OTHER -> WildcardArm(mem)

(***************************************************************************)
(* Instruction::decode: read the opcode, then match it.                    *)
(***************************************************************************)
decode(mem, eofSeeks) ==
    LET r == read_u8(mem, eofSeeks)
    IN  IF r.ok THEN match_opcode(r.value, r.memory, eofSeeks)
        ELSE Err(UnexpectedEof, r.memory)

(***************************************************************************)
(* The state machine: a cursor over a byte stream, at position 0, and the  *)
(* calls of decode made on it.                                             *)
(***************************************************************************)
Init ==
    /\ memory \in {[inner |-> s, pos |-> 0] : s \in Streams}
    /\ calls = <<>>

\* A panic unwinds the caller: no call follows one.
Panicked == \E i \in 1..Len(calls) : calls[i].result.kind = "Panic"

\* One call of Instruction::decode(&mut memory).
Decode ==
    /\ ~Panicked
    /\ Len(calls) < MaxCalls
    /\ \E eofSeeks \in BOOLEAN :
          LET d == decode(memory, eofSeeks)
          IN  /\ memory' = d.memory
              /\ calls' = Append(calls, [start |-> memory.pos,
                                         end |-> d.memory.pos,
                                         result |-> d.result])

Next == Decode

Spec == Init /\ [][Next]_vars

(***************************************************************************)
(* Vocabulary of the properties.  A call is an index into calls; the       *)
(* opcode of a call is the byte at the position the call started from.     *)
(***************************************************************************)
Calls == 1..Len(calls)

\* The call found a byte to read as its opcode.
HasOpcode(i) == calls[i].start < Len(memory.inner)

OpcodeOf(i) == memory.inner[calls[i].start + 1]

\* The k-th byte after the opcode of call i.
TrailingByte(i, k) == memory.inner[calls[i].start + 1 + k]

\* Bytes of the stream after the opcode of call i.
Available(i) == Len(memory.inner) - (calls[i].start + 1)

\* Bytes by which call i advanced the cursor.
Consumed(i) == calls[i].end - calls[i].start

Returned(i) == calls[i].result

IsOk(i) == Returned(i).kind = "Ok"

IsErr(i) == Returned(i).kind = "Err"

\* The eleven bytes the published base table leaves unassigned.
UnassignedOpcodes ==
    {\hD3, \hDB, \hDD, \hE3, \hE4, \hEB, \hEC, \hED, \hF4, \hFC, \hFD}

\* The opcodes the published table follows with a two-byte immediate.
TwoByteImmediateOpcodes ==
    {\h01, \h11, \h21, \h31, \h08, \hC2, \hC3, \hC4, \hCA, \hCC, \hCD,
     \hD2, \hD4, \hDA, \hDC, \hEA, \hFA}

\* The opcodes the published table follows with one byte: an immediate, a
\* signed offset, a high-page address, or the padding byte of Stop.
OneByteImmediateOpcodes ==
    {\h06, \h0E, \h16, \h1E, \h26, \h2E, \h36, \h3E,
     \h18, \h20, \h28, \h30, \h38,
     \hC6, \hCE, \hD6, \hDE, \hE6, \hEE, \hF6, \hFE,
     \hE0, \hF0, \hE8, \hF8, \h10}

\* Length in bytes of the instruction an opcode starts, by the published table.
IsaLength(opcode) ==
    IF opcode \in TwoByteImmediateOpcodes THEN 3
    ELSE IF opcode \in OneByteImmediateOpcodes THEN 2
    ELSE 1

\* The 16-bit field of a decoded instruction: data for the pair loads,
\* address for the others.
WordField(instruction) ==
    IF instruction.variant = "LoadTwoBytesOfDataIntoRegister"
    THEN instruction.data
    ELSE instruction.address

(***************************************************************************)
(* C1.  For every opcode byte, whatever follows it, decode returns an      *)
(* Instruction or an error: no call ends in a panic.                       *)
(* The arms of 0x02 | 0x12 and 0x22 | 0x32 match opcode & 0b11110000       *)
(* against 0x0, 0x1, 0x2, 0x3, so 0x12, 0x22 and 0x32 reach unreachable!().*)
(***************************************************************************)
C1_DecodeNeverPanics ==
    \A i \in Calls : HasOpcode(i) => Returned(i).kind \in {"Ok", "Err"}

(***************************************************************************)
(* C2.  Every opcode the published base table defines (every byte but 0xCB *)
(* and the eleven unassigned ones) decodes to an Instruction when the      *)
(* bytes it needs follow it.                                               *)
(* 0x88..0x8F and 0x98..0x9F have no arm and 0x12, 0x22, 0x32 panic.       *)
(***************************************************************************)
C2_DefinedOpcodesDecode ==
    \A i \in Calls :
        (/\ HasOpcode(i)
         /\ OpcodeOf(i) \notin UnassignedOpcodes \cup {\hCB}
         /\ Available(i) >= IsaLength(OpcodeOf(i)) - 1)
        => IsOk(i)

\* The opcodes no arm of the match names: the eleven unassigned bytes and
\* the two rows 0x88..0x8F and 0x98..0x9F.
UnmatchedOpcodes == UnassignedOpcodes \cup (\h88..\h8F) \cup (\h98..\h9F)

(***************************************************************************)
(* C3.  A call whose opcode is 0xCB fails, whatever follows the opcode: it *)
(* returns an error, never an Instruction, and that error differs from the *)
(* error any call returns for an opcode no rule matches.                   *)
(***************************************************************************)
C3_ExtendedOpcodeFailsDistinctly ==
    \A i \in Calls :
        (HasOpcode(i) /\ OpcodeOf(i) = \hCB)
        => /\ IsErr(i)
           /\ Returned(i).error # UnexpectedEof
           /\ \A j \in Calls :
                 (HasOpcode(j) /\ OpcodeOf(j) \in UnmatchedOpcodes)
                 => Returned(j) # Returned(i)

\* 0xCB was decoded, and after it an opcode no rule matches.
C3_Witness ==
    \E i, j \in Calls :
        /\ HasOpcode(i) /\ OpcodeOf(i) = \hCB /\ IsErr(i)
        /\ HasOpcode(j) /\ OpcodeOf(j) \in UnmatchedOpcodes /\ IsErr(j)

(***************************************************************************)
(* C4, as stated.  A call whose opcode matches no rule (and is not 0xCB)   *)
(* fails with an unknown-opcode error that carries the opcode, so two      *)
(* calls on different unmatched opcodes return different error values.     *)
(***************************************************************************)
C4_UnknownOpcodeErrorCarriesOpcode ==
    \A i, j \in Calls :
        (/\ HasOpcode(i) /\ OpcodeOf(i) \in UnmatchedOpcodes
         /\ HasOpcode(j) /\ OpcodeOf(j) \in UnmatchedOpcodes
         /\ OpcodeOf(i) # OpcodeOf(j))
        => /\ IsErr(i) /\ IsErr(j)
           /\ Returned(i) # Returned(j)

(***************************************************************************)
(* C4, amended.  A call whose opcode matches no rule (and is not 0xCB)     *)
(* fails with the fixed error "Unknown 8 bit opcode"; the error does not   *)
(* carry the opcode, so calls on different unmatched opcodes return the    *)
(* same error value.                                                       *)
(***************************************************************************)
C4_UnknownOpcodeErrorIsFixed ==
    /\ \A i \in Calls :
          (HasOpcode(i) /\ OpcodeOf(i) \in UnmatchedOpcodes)
          => Returned(i) = [kind |-> "Err", error |-> "Unknown 8 bit opcode"]
    /\ \A i, j \in Calls :
          (/\ HasOpcode(i) /\ OpcodeOf(i) \in UnmatchedOpcodes
           /\ HasOpcode(j) /\ OpcodeOf(j) \in UnmatchedOpcodes)
          => Returned(i) = Returned(j)

\* Two calls were made on different unmatched opcodes.
C4_Witness ==
    \E i, j \in Calls :
        /\ HasOpcode(i) /\ OpcodeOf(i) \in UnmatchedOpcodes
        /\ HasOpcode(j) /\ OpcodeOf(j) \in UnmatchedOpcodes
        /\ OpcodeOf(i) # OpcodeOf(j)
        /\ IsErr(i) /\ IsErr(j)

(***************************************************************************)
(* C5.  A call on an opcode that needs two trailing bytes, with exactly    *)
(* one byte left after the opcode, fails with the end-of-stream error and  *)
(* returns no Instruction; the cursor is left past the opcode and within   *)
(* the buffer: the opcode byte is consumed, and of the one byte left       *)
(* either none or all, as the failed read leaves it.                       *)
(***************************************************************************)
C5_TruncatedWordFails ==
    \A i \in Calls :
        (/\ HasOpcode(i)
         /\ OpcodeOf(i) \in TwoByteImmediateOpcodes
         /\ Available(i) = 1)
        => /\ Returned(i) = [kind |-> "Err", error |-> UnexpectedEof]
           /\ calls[i].end \in {calls[i].start + 1, calls[i].start + 2}
           /\ calls[i].end <= Len(memory.inner)

\* 0xCD followed by one byte was decoded and failed.
C5_Witness ==
    \E i \in Calls :
        /\ HasOpcode(i) /\ OpcodeOf(i) = \hCD /\ Available(i) = 1
        /\ IsErr(i)

(***************************************************************************)
(* C6.  Every call that returns an Instruction advances the cursor by the  *)
(* length the published table gives the instruction: 1, 2 or 3 bytes.      *)
(* 0xE8 and 0xF8 are two bytes long and their arms read nothing.           *)
(***************************************************************************)
C6_ConsumedIsInstructionLength ==
    \A i \in Calls :
        (HasOpcode(i) /\ IsOk(i)) => Consumed(i) = IsaLength(OpcodeOf(i))

(***************************************************************************)
(* C7.  For every opcode that takes a 16-bit immediate and every pair of   *)
(* trailing bytes b1, b2, the 16-bit field of the decoded Instruction is   *)
(* b1 * 256 + b2, and the call decodes when the two bytes are there.       *)
(***************************************************************************)
C7_WordIsBigEndian ==
    \A i \in Calls :
        (/\ HasOpcode(i)
         /\ OpcodeOf(i) \in TwoByteImmediateOpcodes
         /\ Available(i) >= 2)
        => /\ IsOk(i)
           /\ WordField(Returned(i).instruction)
                 = TrailingByte(i, 1) * 256 + TrailingByte(i, 2)

\* 0xCD 0x12 0x34 was decoded to Call { address: 0x1234 }.
C7_Witness ==
    \E i \in Calls :
        /\ HasOpcode(i) /\ OpcodeOf(i) = \hCD /\ Available(i) >= 2
        /\ TrailingByte(i, 1) = \h12 /\ TrailingByte(i, 2) = \h34
        /\ Returned(i) = [kind |-> "Ok",
                          instruction |-> [variant |-> "Call", address |-> \h1234]]

(***************************************************************************)
(* C8.  0xE0 n decodes to StoreAccumulatorInMemory and 0xF0 n to           *)
(* LoadAccumulatorFromMemory, each with address 0xFF00 + n and each        *)
(* reading exactly one trailing byte, so the address is in 0xFF00..0xFFFF; *)
(* 0xEA and 0xFA decode to the same variants with the two-byte address     *)
(* that follows them.                                                      *)
(***************************************************************************)
C8_HighPageAddress ==
    \A i \in Calls :
        /\ (HasOpcode(i) /\ OpcodeOf(i) \in {\hE0, \hF0} /\ Available(i) >= 1)
           => /\ Returned(i) =
                    [kind |-> "Ok",
                     instruction |->
                        [variant |-> IF OpcodeOf(i) = \hE0
                                     THEN "StoreAccumulatorInMemory"
                                     ELSE "LoadAccumulatorFromMemory",
                         address |-> \hFF00 + TrailingByte(i, 1)]]
              /\ Returned(i).instruction.address \in \hFF00..\hFFFF
              /\ Consumed(i) = 2
        /\ (HasOpcode(i) /\ OpcodeOf(i) \in {\hEA, \hFA} /\ Available(i) >= 2)
           => /\ Returned(i) =
                    [kind |-> "Ok",
                     instruction |->
                        [variant |-> IF OpcodeOf(i) = \hEA
                                     THEN "StoreAccumulatorInMemory"
                                     ELSE "LoadAccumulatorFromMemory",
                         address |-> TrailingByte(i, 1) * 256 + TrailingByte(i, 2)]]
              /\ Consumed(i) = 3

\* 0xE0 0x80 was decoded to StoreAccumulatorInMemory { address: 0xFF80 }.
C8_Witness ==
    \E i \in Calls :
        /\ HasOpcode(i) /\ OpcodeOf(i) = \hE0 /\ Available(i) >= 1
        /\ TrailingByte(i, 1) = \h80
        /\ Returned(i) = [kind |-> "Ok",
                          instruction |-> [variant |-> "StoreAccumulatorInMemory",
                                           address |-> \hFF80]]
        /\ Consumed(i) = 2

(***************************************************************************)
(* C9.  A call on opcode 0x10 reads and drops one following byte, whatever *)
(* its value: when a byte follows, the call returns Stop and has advanced  *)
(* the cursor by 2; when 0x10 is the last byte of the stream, the call     *)
(* fails with the end-of-stream error and does not return Stop.            *)
(***************************************************************************)
C9_StopReadsPaddingByte ==
    \A i \in Calls :
        (HasOpcode(i) /\ OpcodeOf(i) = \h10)
        => IF Available(i) >= 1
           THEN /\ Returned(i) = [kind |-> "Ok", instruction |-> [variant |-> "Stop"]]
                /\ Consumed(i) = 2
           ELSE /\ Returned(i) = [kind |-> "Err", error |-> UnexpectedEof]
                /\ Consumed(i) = 1

\* 0x10 followed by a nonzero byte was decoded to Stop.
C9_Witness ==
    \E i \in Calls :
        /\ HasOpcode(i) /\ OpcodeOf(i) = \h10 /\ Available(i) >= 1
        /\ TrailingByte(i, 1) # 0
        /\ IsOk(i) /\ Returned(i).instruction.variant = "Stop"
        /\ Consumed(i) = 2

(***************************************************************************)
(* C10.  Opcode 0x76 decodes to Halt, consuming one byte; every other      *)
(* opcode in 0x40..0x7F decodes to                                         *)
(* LoadValueOfFirstRegisterIntoSecondRegister; and no opcode but 0x76      *)
(* decodes to Halt.                                                        *)
(***************************************************************************)
C10_HaltIsOnly0x76 ==
    \A i \in Calls :
        HasOpcode(i) =>
            /\ OpcodeOf(i) = \h76
               => /\ Returned(i) = [kind |-> "Ok", instruction |-> [variant |-> "Halt"]]
                  /\ Consumed(i) = 1
            /\ (OpcodeOf(i) \in \h40..\h7F /\ OpcodeOf(i) # \h76)
               => /\ IsOk(i)
                  /\ Returned(i).instruction.variant
                        = "LoadValueOfFirstRegisterIntoSecondRegister"
            /\ (IsOk(i) /\ Returned(i).instruction.variant = "Halt")
               => OpcodeOf(i) = \h76

\* 0x76 was decoded to Halt.
C10_Witness ==
    \E i \in Calls :
        /\ HasOpcode(i) /\ OpcodeOf(i) = \h76
        /\ IsOk(i) /\ Returned(i).instruction.variant = "Halt"
        /\ Consumed(i) = 1

\* The order in which a three-bit field of the opcode selects a register.
RegisterOrder == <<"B", "C", "D", "E", "H", "L", "HL", "A">>

\* opcode bits 0..2 and opcode bits 3..5
Bits0to2(opcode) == opcode % 8

Bits3to5(opcode) == (opcode \div 8) % 8

(***************************************************************************)
(* C11.  For every opcode in 0x40..0x7F other than 0x76 the decoded load   *)
(* has register1 selected by the low three bits of the opcode in the order *)
(* B, C, D, E, H, L, HL, A and register2 by bits 3..5 in the same order;   *)
(* the first register is flagged as a memory address exactly when the low  *)
(* nibble is 0x6 or 0xE, and the second exactly when the opcode is in      *)
(* 0x70..0x77, so loads into A (0x78..0x7F) never flag the destination.    *)
(* The second flag is opcode >> 4 == 0x7 && opcode & 0b00001111 < 0xE,     *)
(* which is also true of 0x78..0x7D.                                       *)
(***************************************************************************)
C11_LoadBlockOperands ==
    \A i \in Calls :
        (HasOpcode(i) /\ OpcodeOf(i) \in \h40..\h7F /\ OpcodeOf(i) # \h76)
        => /\ IsOk(i)
           /\ LET opcode == OpcodeOf(i)
                  load == Returned(i).instruction
              IN  /\ load.variant = "LoadValueOfFirstRegisterIntoSecondRegister"
                  /\ load.register1 = RegisterOrder[Bits0to2(opcode) + 1]
                  /\ load.register2 = RegisterOrder[Bits3to5(opcode) + 1]
                  /\ load.treat_value_in_first_register_as_memory_address
                        <=> (opcode % 16 \in {\h6, \hE})
                  /\ load.treat_value_in_second_register_as_memory_address
                        <=> (opcode \in \h70..\h77)

\* The load of register1 into register2 with the flags and operations given.
LoadOf(register1, register2, firstIsAddress, secondIsAddress, onFirst, onSecond) ==
    [variant |-> "LoadValueOfFirstRegisterIntoSecondRegister",
     register1 |-> register1,
     register2 |-> register2,
     treat_value_in_first_register_as_memory_address |-> firstIsAddress,
     treat_value_in_second_register_as_memory_address |-> secondIsAddress,
     operation_on_first_register |-> onFirst,
     operation_on_second_register |-> onSecond]

\* The pointer register and the operation on it that the high nibble of an
\* accumulator/pointer load selects.
PointerOf(opcode) ==
    CASE opcode \div 16 = 0 -> "BC"
      [] opcode \div 16 = 1 -> "DE"
      [] OTHER -> "HL"

PointerOperationOf(opcode) ==
    CASE opcode \div 16 = 2 -> "Some(Increment)"
      [] opcode \div 16 = 3 -> "Some(Decrement)"
      [] OTHER -> "None"

(***************************************************************************)
(* C12.  0x02, 0x12, 0x22, 0x32 decode to a load of A into the memory      *)
(* addressed by BC, DE, HL, HL, with Increment on the HL operand for 0x22  *)
(* and Decrement for 0x32; 0x0A, 0x1A, 0x2A, 0x3A decode to the mirror     *)
(* loads from that memory into A, with Increment for 0x2A and Decrement    *)
(* for 0x3A; no other opcode decodes to a load with an operation attached. *)
(* 0x12, 0x22 and 0x32 do not decode: their arms panic.                    *)
(***************************************************************************)
C12_AccumulatorPointerLoads ==
    \A i \in Calls :
        HasOpcode(i) =>
            /\ OpcodeOf(i) \in {\h02, \h12, \h22, \h32}
               => Returned(i) =
                     [kind |-> "Ok",
                      instruction |->
                         LoadOf("A", PointerOf(OpcodeOf(i)), FALSE, TRUE,
                                "None", PointerOperationOf(OpcodeOf(i)))]
            /\ OpcodeOf(i) \in {\h0A, \h1A, \h2A, \h3A}
               => Returned(i) =
                     [kind |-> "Ok",
                      instruction |->
                         LoadOf(PointerOf(OpcodeOf(i)), "A", TRUE, FALSE,
                                PointerOperationOf(OpcodeOf(i)), "None")]
            /\ (/\ IsOk(i)
                /\ Returned(i).instruction.variant
                      = "LoadValueOfFirstRegisterIntoSecondRegister"
                /\ \/ Returned(i).instruction.operation_on_first_register # "None"
                   \/ Returned(i).instruction.operation_on_second_register # "None")
               => OpcodeOf(i) \in {\h22, \h32, \h2A, \h3A}

\* The register operands of an instruction whose treat-as-memory-address
\* flag is true: each flag field is paired with the register field it names.
FlaggedRegisters(instruction) ==
    LET fields == DOMAIN instruction
        Flagged(flag, register) ==
            IF flag \in fields /\ register \in fields
            THEN IF instruction[flag] THEN {instruction[register]} ELSE {}
            ELSE {}
    IN  Flagged("treat_value_in_register_as_memory_address", "register")
        \cup Flagged("treat_value_in_first_register_as_memory_address", "register1")
        \cup Flagged("treat_value_in_second_register_as_memory_address", "register2")

(***************************************************************************)
(* C13.  In every Instruction that decode returns, a register operand      *)
(* whose treat-as-memory-address flag is true is one of the pointer        *)
(* registers BC, DE, HL: no 8-bit register is flagged as a memory address. *)
(* 0x86 and 0x96 put the opcode's register in register1 and A in           *)
(* register2 and flag the second register; 0x78..0x7D flag the             *)
(* destination A.                                                          *)
(***************************************************************************)
C13_FlaggedRegisterIsPointer ==
    \A i \in Calls :
        (HasOpcode(i) /\ IsOk(i))
        => FlaggedRegisters(Returned(i).instruction) \subseteq {"BC", "DE", "HL"}

====
